---- MODULE Spec2Model ----
(***************************************************************************)
(* The data-preparation and query layer of digital_economy_app.py: the     *)
(* cached loader load_data, and the script main that Streamlit re-executes *)
(* on every interaction (resolve the company, filter by year, compute the  *)
(* metric cards).                                                          *)
(*                                                                         *)
(* A DataFrame is a sequence of rows in file order.  The index is a        *)
(* decimal number of three places, held as its count of thousandths        *)
(* (80000 is 80.000); a mean is an exact fraction.                         *)
(* Strings that are searched (names, tickers, the query) are sequences of  *)
(* one-character strings.                                                  *)
(***************************************************************************)
EXTENDS FiniteSets, Integers, Sequences, TLC

VARIABLES
    file,     \* the CSV at CSV_PATH: [state, rows]
    cache,    \* the entry st.cache_data keeps for load_data()
    session,  \* the widgets' values: search_mode, query, selected_years
    view      \* what the last execution of main() rendered

vars == <<file, cache, session, view>>

-----------------------------------------------------------------------------
(* Bounds and input domains *)

MaxRows == 3

DefaultStartYear == 2010

Years == {DefaultStartYear, DefaultStartYear + 1}

NameA == <<"a">>
NameAB == <<"a", "b">>
Names == {NameA, NameAB}

Ticker1 == <<"1">>
Ticker2 == <<"2">>
Ticker3 == <<"3">>

\* 80.000 and 90.004
IndexValues == {80000, 90004}

\* total keyword frequency of a company's report (one value per company)
FreqOf(t) == IF t = Ticker1 THEN 3 ELSE IF t = Ticker2 THEN 7 ELSE 8

YearCell(y) == [parses |-> TRUE, value |-> y]
BadYearCell == [parses |-> FALSE, value |-> 0]

RawRow(t, n, y, i) ==
    [ticker |-> t, name |-> n, year |-> y, idx |-> i, freq |-> FreqOf(t)]

\* Three families of files.  Names vary (the resolver's cases):
RowsNames ==
    {RawRow(t, n, YearCell(y), 80000) :
        t \in {Ticker1, Ticker2}, n \in Names, y \in Years}
    \cup {RawRow(Ticker1, NameA, BadYearCell, 90004)}

\* the index varies over the years (the delta's and the averages' cases):
RowsIndex ==
    {RawRow(t, NameAB, YearCell(y), i) :
        t \in {Ticker1, Ticker2}, y \in Years, i \in IndexValues}
    \cup {RawRow(Ticker2, NameAB, BadYearCell, 90004)}

\* three companies in one year (the rank's cases):
RowsMarket ==
    {RawRow(t, NameAB, YearCell(DefaultStartYear + 1), i) :
        t \in {Ticker1, Ticker2, Ticker3}, i \in IndexValues}

SeqsUpTo(S, n) == UNION {[1..k -> S] : k \in 0..n}

\* a panel: at most one row per company and year
IsPanel(rows) ==
    \A i, j \in 1..Len(rows) :
        (i # j /\ rows[i].year.parses /\ rows[j].year.parses
            /\ rows[i].ticker = rows[j].ticker)
        => rows[i].year.value # rows[j].year.value

Files ==
    {rows \in SeqsUpTo(RowsNames, MaxRows) \cup SeqsUpTo(RowsIndex, MaxRows)
                \cup SeqsUpTo(RowsMarket, MaxRows) : IsPanel(rows)}

Modes == {"by_name", "by_ticker"}

Queries == {<<>>, NameA, NameAB, <<"*">>, Ticker1}

DefaultQuery == NameAB


-----------------------------------------------------------------------------
(* load_data: cleaning and the market averages (lines 72-97) *)

\* lines 83-85: to_numeric(errors='coerce'), dropna(subset=year), astype(int)
CleanYears(rows) ==
    LET kept == SelectSeq(rows, LAMBDA r : r.year.parses)
    IN  [k \in 1..Len(kept) |->
            [ticker |-> kept[k].ticker, name |-> kept[k].name,
             year |-> kept[k].year.value, idx |-> kept[k].idx,
             freq |-> kept[k].freq]]

MinOf(S) == CHOOSE x \in S : \A y \in S : x <= y
MaxOf(S) == CHOOSE x \in S : \A y \in S : x >= y

\* df[year].unique()
YearsOf(df) == {df[k].year : k \in 1..Len(df)}

RECURSIVE GCD(_, _)
GCD(a, b) == IF b = 0 THEN a ELSE GCD(b, a % b)

\* a mean, kept exact: sum / n in lowest terms
Mean(sum, n) ==
    LET g == GCD(sum, n) IN [num |-> sum \div g, den |-> n \div g]

\* groupby(year): one pass over the rows, a running sum and count per key
RECURSIVE GroupAcc(_, _)
GroupAcc(df, k) ==
    IF k = 0 THEN [y \in {} |-> [idx |-> 0, freq |-> 0, n |-> 0]]
    ELSE LET acc == GroupAcc(df, k - 1)
             r == df[k]
         IN  IF r.year \in DOMAIN acc
             THEN [acc EXCEPT ![r.year] =
                      [idx |-> @.idx + r.idx, freq |-> @.freq + r.freq, n |-> @.n + 1]]
             ELSE [y \in DOMAIN acc \cup {r.year} |->
                      IF y = r.year
                      THEN [idx |-> r.idx, freq |-> r.freq, n |-> 1]
                      ELSE acc[y]]

RECURSIVE Ascending(_)
Ascending(S) ==
    IF S = {} THEN <<>>
    ELSE LET m == CHOOSE x \in S : \A y \in S : x <= y
         IN  <<m>> \o Ascending(S \ {m})

\* .sum() written for .mean()
MarketAvg_Sum(df) ==
    LET acc == GroupAcc(df, Len(df))
        keys == Ascending(DOMAIN acc)
    IN  [k \in 1..Len(keys) |->
            [year |-> keys[k],
             avg_idx |-> Mean(acc[keys[k]].idx, 1),
             avg_freq |-> Mean(acc[keys[k]].freq, 1)]]

\* lines 88-92: groupby(year)[[index, total frequency]].mean().reset_index()
MarketAvg(df) ==
    LET acc == GroupAcc(df, Len(df))
        keys == Ascending(DOMAIN acc)
    IN  [k \in 1..Len(keys) |->
            [year |-> keys[k],
             avg_idx |-> Mean(acc[keys[k]].idx, acc[keys[k]].n),
             avg_freq |-> Mean(acc[keys[k]].freq, acc[keys[k]].n)]]

\* the value load_data returns: (df, market_avg), or (None, None)
NoneNone == [ok |-> FALSE, df |-> <<>>, market_avg |-> <<>>]

\* the body of load_data, run on a cache miss; replay holds the st.error the
\* body emits, which st.cache_data stores and replays with the value
LoadBody(f) ==
    IF f.state = "missing" THEN [ret |-> NoneNone, replay |-> <<>>]
    ELSE IF f.state = "corrupt"
    THEN [ret |-> NoneNone, replay |-> <<"load_failed">>]
    ELSE LET df == CleanYears(f.rows)
         IN  [ret |-> [ok |-> TRUE, df |-> df, market_avg |-> MarketAvg(df)],
              replay |-> <<>>]

NoEntry == [has |-> FALSE, ret |-> NoneNone, replay |-> <<>>]

\* @st.cache_data: the stored entry on a hit, else the body's result, stored
CachedLoad(c, f) ==
    IF c.has THEN c
    ELSE [has |-> TRUE, ret |-> LoadBody(f).ret, replay |-> LoadBody(f).replay]

-----------------------------------------------------------------------------
(* The resolver (lines 141-153) *)

\* Series.str.contains(pat) takes pat as a regular expression (regex=True is
\* the default) and searches it in the name.  The fragment used here:
\* a literal character, "." for any character, "*" for a repetition of the
\* atom before it.  A "*" with no atom before it does not compile.
ReCompiles(pat) ==
    \A k \in 1..Len(pat) : pat[k] = "*" => (k > 1 /\ pat[k - 1] # "*")

RECURSIVE ReMatchHere(_, _)
RECURSIVE ReMatchStar(_, _, _)
ReMatchHere(pat, s) ==
    IF pat = <<>> THEN TRUE
    ELSE IF Len(pat) >= 2 /\ pat[2] = "*"
    THEN ReMatchStar(pat[1], SubSeq(pat, 3, Len(pat)), s)
    ELSE s # <<>> /\ (pat[1] = "." \/ pat[1] = s[1])
         /\ ReMatchHere(Tail(pat), Tail(s))

ReMatchStar(c, pat, s) ==
    \E k \in 0..Len(s) :
        /\ \A j \in 1..k : c = "." \/ s[j] = c
        /\ ReMatchHere(pat, SubSeq(s, k + 1, Len(s)))

StrContains(name, pat) ==
    \E k \in 0..Len(name) : ReMatchHere(pat, SubSeq(name, k + 1, Len(name)))

\* the substring search made without trying the exact name first
Matches_ContainsOnly(df, mode, query) ==
    IF mode = "by_ticker"
    THEN [raised |-> FALSE, rows |-> SelectSeq(df, LAMBDA r : r.ticker = query)]
    ELSE IF ~ReCompiles(query) THEN [raised |-> TRUE, rows |-> <<>>]
    ELSE [raised |-> FALSE,
          rows |-> SelectSeq(df, LAMBDA r : StrContains(r.name, query))]

\* lines 143-148: the rows the query selects, in the order of df; raised is
\* TRUE when str.contains raises re.error
Matches(df, mode, query) ==
    IF mode = "by_ticker"
    THEN [raised |-> FALSE, rows |-> SelectSeq(df, LAMBDA r : r.ticker = query)]
    ELSE LET exact == SelectSeq(df, LAMBDA r : r.name = query)
         IN  IF exact # <<>> THEN [raised |-> FALSE, rows |-> exact]
             ELSE IF ~ReCompiles(query) THEN [raised |-> TRUE, rows |-> <<>>]
             ELSE [raised |-> FALSE,
                   rows |-> SelectSeq(df, LAMBDA r : StrContains(r.name, query))]

\* iloc[-1] written for iloc[0]
FirstCode_LastRow(matches) == matches[Len(matches)].ticker

\* line 152: matches[ticker].iloc[0]
FirstCode(matches) == matches[1].ticker

\* sort_values(year): ascending
RECURSIVE SortValues(_)
InsertByYear(r, s) ==
    LET before == SelectSeq(s, LAMBDA x : x.year <= r.year)
        after == SelectSeq(s, LAMBDA x : x.year > r.year)
    IN  before \o <<r>> \o after

SortValues(s) ==
    IF s = <<>> THEN <<>>
    ELSE InsertByYear(s[Len(s)], SortValues(SubSeq(s, 1, Len(s) - 1)))

\* line 153: df[df[ticker] == first_code].sort_values(year)
TargetCompany(df, first_code) ==
    SortValues(SelectSeq(df, LAMBDA r : r.ticker = first_code))

\* lines 156-157: the years of the slider, both ends included
FilterYears(target_company, selected_years) ==
    SelectSeq(target_company,
              LAMBDA r : r.year >= selected_years[1] /\ r.year <= selected_years[2])

-----------------------------------------------------------------------------
(* The metric cards (lines 169-192) *)

\* round(x, 2) on thousandths: to the nearest hundredth, a half to the even
\* hundredth
Round2(x) ==
    LET q == x \div 10
        r == x % 10
    IN  IF r < 5 THEN 10 * q
        ELSE IF r > 5 THEN 10 * (q + 1)
        ELSE IF q % 2 = 0 THEN 10 * q ELSE 10 * (q + 1)

\* a missing previous record read as an index of 0
IdxDelta_NoZeroFill(filtered_company) ==
    LET n == Len(filtered_company)
    IN  IF n > 1
        THEN Round2(filtered_company[n].idx - filtered_company[n - 1].idx)
        ELSE Round2(filtered_company[n].idx)

\* lines 174-175: the change against the record before the latest one
IdxDelta(filtered_company) ==
    LET n == Len(filtered_company)
    IN  IF n > 1
        THEN Round2(filtered_company[n].idx - filtered_company[n - 1].idx)
        ELSE 0

\* the market of the Dataset's last year, not of the company's
CurrentMarket_DatasetMaxYear(df, latest_yr) ==
    SelectSeq(df, LAMBDA r : r.year = MaxOf(YearsOf(df)))

\* line 178: df[df[year] == latest_yr]
CurrentMarket(df, latest_yr) ==
    SelectSeq(df, LAMBDA r : r.year = latest_yr)

InsertDesc(v, s) ==
    LET before == SelectSeq(s, LAMBDA x : x >= v)
        after == SelectSeq(s, LAMBDA x : x < v)
    IN  before \o <<v>> \o after

RECURSIVE SortDesc(_)
SortDesc(vals) ==
    IF vals = <<>> THEN <<>>
    ELSE InsertDesc(vals[Len(vals)], SortDesc(SubSeq(vals, 1, Len(vals) - 1)))

\* method='first': equal values ranked in their order of appearance
RankMin_First(vals) ==
    [k \in 1..Len(vals) |->
        Cardinality({j \in 1..Len(vals) : vals[j] > vals[k]})
        + Cardinality({j \in 1..k : vals[j] = vals[k]})]

\* line 179: rank(ascending=False, method='min'): the values in descending
\* order, each value ranked by the first place of its group of equals
RankMin(vals) ==
    LET sorted == SortDesc(vals)
    IN  [k \in 1..Len(vals) |->
            CHOOSE p \in 1..Len(sorted) :
                /\ sorted[p] = vals[k]
                /\ \A q \in 1..(p - 1) : sorted[q] # vals[k]]

NotAvailable == [defined |-> FALSE, value |-> 0]

\* line 180: the first rank among the market's rows of the ticker, else "N/A"
MyRank(current_market, stock_code) ==
    LET rank == RankMin([k \in 1..Len(current_market) |-> current_market[k].idx])
        mine == {k \in 1..Len(current_market) : current_market[k].ticker = stock_code}
    IN  IF mine = {} THEN NotAvailable
        ELSE [defined |-> TRUE,
              value |-> rank[CHOOSE k \in mine : \A j \in mine : k <= j]]

\* line 188: int(my_rank / total_comps * 100); the floating-point quotient
\* gives this integer for every market of fewer than 50 rows
TopPercent(my_rank, total_comps) == (my_rank * 100) \div total_comps

\* lines 178-188: the rank card; int("N/A") raises ValueError
RankCard(df, latest_yr, stock_code) ==
    LET current_market == CurrentMarket(df, latest_yr)
        my_rank == MyRank(current_market, stock_code)
        total_comps == Len(current_market)
    IN  [my_rank |-> my_rank,
         total_comps |-> total_comps,
         raised |-> ~my_rank.defined,
         value |-> IF my_rank.defined THEN my_rank.value ELSE 0,
         top |-> IF my_rank.defined
                 THEN TopPercent(my_rank.value, total_comps) ELSE 0]

-----------------------------------------------------------------------------
(* main (lines 102-277): one execution of the script *)

\* line 126: st.slider(min_year, max_year, (2010, max_year)); the widget
\* widens its bounds to hold the default value
SliderChoices(df) ==
    LET lowest == MinOf(YearsOf(df) \cup {DefaultStartYear})
        highest == MaxOf(YearsOf(df) \cup {DefaultStartYear})
    IN  {<<lo, hi>> \in (lowest..highest) \X (lowest..highest) : lo <= hi}

SliderDefault(df) == <<DefaultStartYear, MaxOf(YearsOf(df) \cup {DefaultStartYear})>>

NoMetrics ==
    [latest_idx |-> 0, latest_yr |-> 0, idx_delta |-> 0,
     my_rank |-> NotAvailable, total_comps |-> 0, rank_value |-> 0, rank_top |-> 0,
     raised |-> FALSE]

\* a page on which nothing below the load was rendered
BlankView ==
    [kind |-> "none", raised |-> "", msgs |-> <<>>,
     body_ran |-> FALSE, file_at_run |-> "missing", ret |-> NoneNone,
     search_mode |-> "by_name", query |-> <<>>, selected_years |-> <<0, 0>>,
     matches |-> <<>>, target_company |-> <<>>, filtered_company |-> <<>>,
     metrics |-> NoMetrics]

\* lines 169-192
Metrics(df, filtered_company, stock_code) ==
    LET latest_rec == filtered_company[Len(filtered_company)]
        card == RankCard(df, latest_rec.year, stock_code)
    IN  [latest_idx |-> latest_rec.idx,
         latest_yr |-> latest_rec.year,
         idx_delta |-> IdxDelta(filtered_company),
         my_rank |-> card.my_rank,
         total_comps |-> card.total_comps,
         rank_value |-> card.value,
         rank_top |-> card.top,
         raised |-> card.raised]

\* lines 141-277, given the loaded df and the widgets' values
Dashboard(base, df, mode, query, years) ==
    LET page == [base EXCEPT !.search_mode = mode, !.query = query,
                             !.selected_years = years]
    IN  IF query = <<>>
        THEN [page EXCEPT !.kind = "Overview", !.msgs = @ \o <<"enter_query">>]
        ELSE LET m == Matches(df, mode, query)
             IN  IF m.raised
                 THEN [page EXCEPT !.kind = "Crash", !.raised = "re.error"]
                 ELSE IF m.rows = <<>>
                 THEN [page EXCEPT !.kind = "NoMatch", !.msgs = @ \o <<"no_match">>]
                 ELSE LET first_code == FirstCode(m.rows)
                          target_company == TargetCompany(df, first_code)
                          filtered_company == FilterYears(target_company, years)
                          found == [page EXCEPT !.matches = m.rows,
                                                !.target_company = target_company,
                                                !.filtered_company = filtered_company]
                      IN  IF filtered_company = <<>>
                          THEN [found EXCEPT !.kind = "EmptyFiltered",
                                             !.msgs = @ \o <<"no_data_in_years">>]
                          ELSE LET mt == Metrics(df, filtered_company, first_code)
                               IN  IF mt.raised
                                   THEN [found EXCEPT !.kind = "Crash",
                                                      !.raised = "int(N/A)",
                                                      !.metrics = mt]
                                   ELSE [found EXCEPT !.kind = "Metrics",
                                                      !.metrics = mt]

\* main(): the entry of the cache after the call, the widgets' values after
\* the run and the page.  s holds the values the widgets return in this run.
Main(c, f, s) ==
    LET entry == CachedLoad(c, f)
        base == [BlankView EXCEPT !.msgs = entry.replay, !.body_ran = ~c.has,
                                  !.file_at_run = f.state, !.ret = entry.ret]
        df == entry.ret.df
    IN  IF ~entry.ret.ok
        THEN [cache |-> entry, session |-> s,
              view |-> [base EXCEPT !.kind = "FileError",
                                    !.msgs = @ \o <<"file_not_found">>]]
        ELSE IF df = <<>>
        THEN \* line 124: int(df[year].min()) of an empty column
             [cache |-> entry, session |-> s,
              view |-> [base EXCEPT !.kind = "Crash", !.raised = "int(nan)",
                                    !.search_mode = s.search_mode, !.query = s.query]]
        ELSE LET years == IF s.slider_set THEN s.selected_years ELSE SliderDefault(df)
                 after == [s EXCEPT !.slider_set = TRUE, !.selected_years = years]
             IN  [cache |-> entry, session |-> after,
                  view |-> Dashboard(base, df, s.search_mode, s.query, years)]

-----------------------------------------------------------------------------
(* The state machine *)

Init ==
    /\ file \in {[state |-> "missing", rows |-> <<>>],
                 [state |-> "corrupt", rows |-> <<>>]}
                \cup {[state |-> "ok", rows |-> rows] : rows \in Files}
    /\ cache = NoEntry
    /\ session = [search_mode |-> "by_name", query |-> DefaultQuery,
                  slider_set |-> FALSE, selected_years |-> <<0, 0>>]
    /\ view = BlankView

Run(s) ==
    LET out == Main(cache, file, s)
    IN  /\ cache' = out.cache
        /\ session' = out.session
        /\ view' = out.view
        /\ UNCHANGED file

WidgetsShown == view.kind \notin {"none", "FileError"}
SliderShown == WidgetsShown /\ cache.ret.df # <<>>

\* the page is opened or reloaded: the script runs with the widgets as they are
Rerun == Run(session)

\* the analyst types into the search box (line 121)
TypeQuery(q) ==
    /\ WidgetsShown
    /\ q # session.query
    /\ Run([session EXCEPT !.query = q])

\* the analyst picks the search mode (line 115)
SelectMode(m) ==
    /\ WidgetsShown
    /\ m # session.search_mode
    /\ Run([session EXCEPT !.search_mode = m])

\* the analyst moves the year slider (line 126)
MoveSlider(years) ==
    /\ SliderShown
    /\ years \in SliderChoices(cache.ret.df)
    /\ years # session.selected_years
    /\ Run([session EXCEPT !.selected_years = years])

\* the CSV is put in place, or a broken one is replaced by a readable one
PlaceFile(rows) ==
    /\ file.state # "ok"
    /\ file' = [state |-> "ok", rows |-> rows]
    /\ UNCHANGED <<cache, session, view>>

Next ==
    \/ Rerun
    \/ \E q \in Queries : TypeQuery(q)
    \/ \E m \in Modes : SelectMode(m)
    \/ \E years \in Years \X Years : MoveSlider(years)
    \/ \E rows \in Files : PlaceFile(rows)

Spec == Init /\ [][Next]_vars

-----------------------------------------------------------------------------
(* The rank card on its own: lines 178-188 applied to any year and ticker *)

InitCards ==
    /\ file \in {[state |-> "ok", rows |-> rows] : rows \in Files}
    /\ cache = CachedLoad(NoEntry, file)
    /\ session = [search_mode |-> "by_ticker", query |-> <<>>,
                  slider_set |-> FALSE, selected_years |-> <<0, 0>>]
    /\ view = BlankView

ShowRankCard(latest_yr, stock_code) ==
    LET card == RankCard(cache.ret.df, latest_yr, stock_code)
    IN  /\ view' = [BlankView EXCEPT
                       !.kind = IF card.raised THEN "Crash" ELSE "Metrics",
                       !.raised = IF card.raised THEN "int(N/A)" ELSE "",
                       !.ret = cache.ret,
                       !.query = stock_code,
                       !.metrics = [NoMetrics EXCEPT !.latest_yr = latest_yr,
                                                     !.my_rank = card.my_rank,
                                                     !.total_comps = card.total_comps,
                                                     !.rank_value = card.value,
                                                     !.rank_top = card.top,
                                                     !.raised = card.raised]]
        /\ UNCHANGED <<file, cache, session>>

NextCards ==
    \E latest_yr \in Years, stock_code \in {Ticker1, Ticker2, Ticker3} :
        ShowRankCard(latest_yr, stock_code)

SpecCards == InitCards /\ [][NextCards]_vars

-----------------------------------------------------------------------------
(* Properties *)

\* the Dataset the last run of main() worked on
Df == view.ret.df

RowSet(rows) == {rows[k] : k \in 1..Len(rows)}

\* the run got as far as the resolver (line 142) with a query to resolve
Resolving ==
    /\ view.kind \in {"NoMatch", "EmptyFiltered", "Metrics", "Crash"}
    /\ Df # <<>>
    /\ view.query # <<>>

\* the rows of the resolved company that lie in the selected years
InRange ==
    {k \in 1..Len(Df) :
        /\ Df[k].ticker = view.target_company[1].ticker
        /\ Df[k].year >= view.selected_years[1]
        /\ Df[k].year <= view.selected_years[2]}

LastYear == MaxOf({Df[k].year : k \in InRange})
LastRow == CHOOSE k \in InRange : Df[k].year = LastYear

\* C1: in by-name mode with a non-empty query, if some row's name equals the
\* query then the match set is exactly the rows whose name equals the query;
\* a matched row whose name is not the query means no name equals the query.
C1_ExactNameFirst ==
    (Resolving /\ view.search_mode = "by_name") =>
        LET exact == {k \in 1..Len(Df) : Df[k].name = view.query}
        IN  /\ exact # {} =>
                /\ RowSet(view.matches) = {Df[k] : k \in exact}
                /\ Len(view.matches) = Cardinality(exact)
            /\ (\E k \in 1..Len(view.matches) : view.matches[k].name # view.query)
                => exact = {}

C1_Witness ==
    /\ Resolving /\ view.search_mode = "by_name" /\ view.query = NameA
    /\ \E k \in 1..Len(Df) : Df[k].name = NameAB
    /\ view.matches # <<>>
    /\ \A k \in 1..Len(view.matches) : view.matches[k].name = NameA

\* C2: when the match set is not empty, the resolved series is all the rows
\* of the Dataset that carry the ticker of the first matching row in the
\* Dataset's order, and no other row, in ascending order of year.
C2_WholeHistoryOfFirstMatch ==
    view.matches # <<>> =>
        LET first == MinOf({k \in 1..Len(Df) : Df[k] \in RowSet(view.matches)})
            history == {k \in 1..Len(Df) : Df[k].ticker = Df[first].ticker}
        IN  /\ RowSet(view.target_company) = {Df[k] : k \in history}
            /\ Len(view.target_company) = Cardinality(history)
            /\ \A i, j \in 1..Len(view.target_company) :
                   i < j => view.target_company[i].year <= view.target_company[j].year

C2_Witness ==
    /\ view.matches # <<>>
    /\ \E k \in 1..Len(view.matches) :
           view.matches[k].ticker # view.matches[1].ticker
    /\ \E k \in 1..Len(view.target_company) :
           view.target_company[k] \notin RowSet(view.matches)
    /\ view.target_company # SelectSeq(Df, LAMBDA r : r.ticker = view.matches[1].ticker)

\* C3: the rank shown is 1 plus the number of rows of the whole Dataset, in
\* the year of the company's last record within the selected years, whose
\* index is greater than the company's index in that year.
C3_RankIsMinOnTies ==
    view.kind = "Metrics" =>
        /\ InRange # {}
        /\ view.metrics.my_rank.defined
        /\ view.metrics.rank_value =
              1 + Cardinality({k \in 1..Len(Df) :
                                  /\ Df[k].year = LastYear
                                  /\ Df[k].idx > Df[LastRow].idx})

\* the indices 90.004, 90.004, 80 of one year: the company at 80 is ranked 3
C3_Witness ==
    /\ view.kind = "Metrics"
    /\ view.metrics.latest_idx = 80000
    /\ view.metrics.rank_value = 3
    /\ Cardinality({k \in 1..Len(Df) :
                       Df[k].year = view.metrics.latest_yr /\ Df[k].idx = 90004}) = 2

\* the company's record of the greatest year within the selected years below
\* the last one
PrevRow ==
    LET earlier == {k \in InRange : Df[k].year < LastYear}
    IN  CHOOSE k \in earlier : \A j \in earlier : Df[j].year <= Df[k].year

\* C4 as stated: the delta is the index of the company's record of the
\* greatest year within the selected years minus the index of its record of
\* the next greatest year within them, and 0 when only one record lies
\* within them.
C4_DeltaIsPlainDifference ==
    view.kind = "Metrics" =>
        /\ InRange # {}
        /\ view.metrics.idx_delta =
               IF Cardinality(InRange) = 1 THEN 0
               ELSE Df[LastRow].idx - Df[PrevRow].idx

\* C4 amended: the delta is that difference rounded to two decimal places,
\* and 0 when only one record lies within the selected years.
C4_DeltaWithinSelectedYears ==
    view.kind = "Metrics" =>
        /\ InRange # {}
        /\ view.metrics.idx_delta % 10 = 0
        /\ IF Cardinality(InRange) = 1 THEN view.metrics.idx_delta = 0
           ELSE LET exact == Df[LastRow].idx - Df[PrevRow].idx
                IN  /\ 2 * (view.metrics.idx_delta - exact) <= 10
                    /\ 2 * (exact - view.metrics.idx_delta) <= 10

\* one record in the selected years, an earlier one with another index outside
C4_Witness ==
    /\ view.kind = "Metrics"
    /\ Cardinality(InRange) = 1
    /\ \E k \in 1..Len(Df) :
           /\ Df[k].ticker = Df[LastRow].ticker
           /\ Df[k].year < view.selected_years[1]
           /\ Df[k].idx # Df[LastRow].idx
    /\ view.metrics.idx_delta = 0

\* the return value of load_data when the file does not exist
NotFoundReturn == LoadBody([state |-> "missing", rows |-> <<>>]).ret

\* C5: a call of load_data that finds the file unparseable returns something
\* other than what a call that finds no file returns.
C5_ParseErrorDistinctFromNotFound ==
    (view.kind # "none" /\ view.body_ran /\ view.file_at_run = "corrupt")
        => view.ret # NotFoundReturn

\* C6: a failed load is not served from the cache: whenever main() runs while
\* a readable file is in place, load_data returns the Dataset of that file.
C6_FailedLoadIsRetried ==
    (view.kind # "none" /\ view.file_at_run = "ok")
        => (view.ret.ok /\ view.ret.df = CleanYears(file.rows))

\* the query is a substring of the name
IsSubstring(query, name) ==
    \E k \in 0..(Len(name) - Len(query)) :
        SubSeq(name, k + 1, k + Len(query)) = query

\* the rows the specification's resolver selects
SpecifiedMatches ==
    IF view.search_mode = "by_ticker"
    THEN {k \in 1..Len(Df) : Df[k].ticker = view.query}
    ELSE LET exact == {k \in 1..Len(Df) : Df[k].name = view.query}
         IN  IF exact # {} THEN exact
             ELSE {k \in 1..Len(Df) : IsSubstring(view.query, Df[k].name)}

\* C7: with a non-empty query a run ends in NoMatch, EmptyFilteredSeries or
\* the metrics; NoMatch exactly when no row matches the query;
\* EmptyFilteredSeries exactly when a company is resolved and none of its
\* records has a year within the selected years, both ends included.
C7_ThreeOutcomes ==
    Resolving =>
        /\ view.kind \in {"NoMatch", "EmptyFiltered", "Metrics"}
        /\ view.kind = "NoMatch" <=> SpecifiedMatches = {}
        /\ view.kind = "EmptyFiltered" <=>
              /\ SpecifiedMatches # {}
              /\ LET code == Df[MinOf(SpecifiedMatches)].ticker
                 IN  \A k \in 1..Len(Df) :
                         Df[k].ticker = code =>
                             \/ Df[k].year < view.selected_years[1]
                             \/ Df[k].year > view.selected_years[2]

RECURSIVE SumIdx(_, _)
SumIdx(rows, S) ==
    IF S = {} THEN 0
    ELSE LET k == CHOOSE x \in S : TRUE
         IN  rows[k].idx + SumIdx(rows, S \ {k})

RECURSIVE SumFreq(_, _)
SumFreq(rows, S) ==
    IF S = {} THEN 0
    ELSE LET k == CHOOSE x \in S : TRUE
         IN  rows[k].freq + SumFreq(rows, S \ {k})

\* the rows of the file whose year cell reads as the year y
FileRowsOfYear(y) ==
    {k \in 1..Len(file.rows) : file.rows[k].year.parses /\ file.rows[k].year.value = y}

FileYears ==
    {file.rows[k].year.value : k \in {j \in 1..Len(file.rows) : file.rows[j].year.parses}}

\* C9: the table of market averages has one entry for each year of the
\* Dataset, and the entry of a year is the mean of the index, and of the total
\* frequency, over the rows of that year.
C9_MarketAverageIsMeanPerYear ==
    (cache.has /\ cache.ret.ok) =>
        LET avg == cache.ret.market_avg
        IN  /\ {avg[k].year : k \in 1..Len(avg)} = FileYears
            /\ Len(avg) = Cardinality(FileYears)
            /\ \A k \in 1..Len(avg) :
                   LET rows == FileRowsOfYear(avg[k].year)
                       n == Cardinality(rows)
                   IN  /\ avg[k].avg_idx.num * n = SumIdx(file.rows, rows) * avg[k].avg_idx.den
                       /\ avg[k].avg_freq.num * n = SumFreq(file.rows, rows) * avg[k].avg_freq.den
                       /\ avg[k].avg_idx.den > 0 /\ avg[k].avg_freq.den > 0
                       /\ n = 1 =>
                              \A j \in rows :
                                  /\ avg[k].avg_idx = [num |-> file.rows[j].idx, den |-> 1]
                                  /\ avg[k].avg_freq = [num |-> file.rows[j].freq, den |-> 1]

\* a year of one row and a year of two rows with different indices
C9_Witness ==
    /\ cache.has /\ cache.ret.ok
    /\ \E y \in FileYears : Cardinality(FileRowsOfYear(y)) = 1
    /\ \E y \in FileYears :
           \E i, j \in FileRowsOfYear(y) : file.rows[i].idx # file.rows[j].idx

\* C10: whenever the metrics are computed the ticker has a row in the ranked
\* market, so the rank is defined, lies in 1..total, and the percentage lies
\* in 0..100; the "N/A" branch is never taken.
C10_RankAlwaysDefined ==
    /\ view.raised # "int(N/A)"
    /\ view.kind = "Metrics" =>
           /\ view.metrics.my_rank.defined
           /\ view.metrics.rank_value >= 1
           /\ view.metrics.rank_value <= view.metrics.total_comps
           /\ view.metrics.rank_top \in 0..100

\* the company is the last of several in its year
C10_Witness ==
    /\ view.kind = "Metrics"
    /\ view.metrics.total_comps > 1
    /\ view.metrics.rank_value = view.metrics.total_comps
    /\ view.metrics.rank_top = 100

=============================================================================
